---- MODULE Spec2Model ----
(***************************************************************************)
(* Model of gonnel, a Go wrapper that drives the ngrok binary:             *)
(*   - tunnel.go : Client.CreateTunnel / Client.CloseTunnel (retry loops   *)
(*                 against the local control API),                         *)
(*   - client    : Client.AddTunnel / ConnectAll / DisconnectAll (the      *)
(*                 registry and its goroutine fan-out) and                 *)
(*                 Client.StartServer (the stdout scanner).                *)
(*                                                                         *)
(* The specifications share the variables:                                 *)
(*   SpecRetry : one caller thread calling CreateTunnel / CloseTunnel,     *)
(*               one loop iteration per step, any response per attempt;    *)
(*   Spec      : the registry with ConnectAll / DisconnectAll and their    *)
(*               goroutines, and Close / Signal;                           *)
(*   SpecScan  : StartServer's read loop over the agent's output;          *)
(*   SpecLive, SpecScanLive : the same steps with the fairness that        *)
(*               termination rests on.                                     *)
(***************************************************************************)
EXTENDS Integers, Sequences, FiniteSets, TLC

VARIABLES
    tunnels,    \* the Tunnel objects: name -> [IsCreated, RemoteAddress]
    cop,        \* SpecRetry: function the caller is in: "none", "create", "close"
    cpc,        \* SpecRetry: "idle", "loop" (inside the for loop), "returned"
    ct,         \* SpecRetry: the *Tunnel argument of the running call
    attempt,    \* SpecRetry: the loop variable `attempt`
    err,        \* SpecRetry: the named result `err`
    http,       \* SpecRetry: HTTP requests sent by the running call
    nOk,        \* SpecRetry: attempts of the running call that returned nil
    before,     \* SpecRetry: the descriptor as it was before the latest attempt
    resp,       \* SpecRetry: the response the latest attempt received
    Tunnel,     \* Spec: Client.Tunnel, the registry (a list of *Tunnel)
    bop,        \* Spec: bulk function the caller is in: "none", "connect", "disconnect"
    bpc,        \* Spec: "idle", "loop" (the range loop), "wait" (wg.Wait), "returned"
    idx,        \* Spec: position of the range loop in Client.Tunnel
    loopT,      \* Spec: the range loop's variable t
    wg,         \* Spec: the sync.WaitGroup counter
    gor,        \* Spec: the goroutine spawned by iteration i: [st, x]
    ret,        \* Spec: what the bulk function returned
    posts,      \* Spec: POST /api/tunnels requests per name since the bulk call began
    deletes,    \* Spec: DELETE /api/tunnels/<name> requests per name since it began
    entry,      \* Spec: the Tunnel objects as they were when the bulk call began
    clean,      \* Spec: every request since the bulk call began succeeded
    output,     \* SpecScan: the lines the agent writes to stdout in this run
    pos,        \* SpecScan: number of bytes of the output read so far
    spc,        \* SpecScan: StartServer is at "read", "send" (isReady <- true), "exited"
    matched,    \* SpecScan: what the three patterns said of chunk[:n] of the latest Read
    reads,      \* SpecScan: number of Reads that returned bytes, counted up to ReadsCap
    WebUIAddress, \* SpecScan: Client.WebUIAddress
    caller,     \* SpecScan: the caller of `go StartServer(done); <-done`
    notified,   \* SpecScan: values received from the isReady channel
    fatal,      \* SpecScan: why log.Fatalln ended the process, or "none"
    iter        \* SpecScan: whether the latest iteration wrote WebUIAddress / sent isReady

retryVars == <<cop, cpc, ct, attempt, err, http, nOk, before, resp>>

bulkVars == <<Tunnel, bop, bpc, idx, loopT, wg, gor, ret, posts, deletes, entry, clean>>

scanVars == <<output, pos, spc, matched, reads, WebUIAddress, caller,
              notified, fatal, iter>>

vars == <<tunnels, retryVars, bulkVars, scanVars>>

\* tunnel.go:28
maxRetries == 100

\* Bound on the length of the registry.
MaxTunnels == 2

\* The names of the Tunnel objects the caller has allocated.
Names == {"a", "b"}

\* The public URL the control API hands out for a tunnel name.
URLOf == [a |-> "https://a.ngrok.io", b |-> "tcp://0.tcp.ngrok.io:1"]

NoErr == "nil"
NoTunnel == "none"

\* A freshly allocated Tunnel: Go zero values for RemoteAddress and IsCreated.
NewTunnel == [IsCreated |-> FALSE, RemoteAddress |-> ""]

----------------------------------------------------------------------------
(* The control API as seen by one attempt.                                 *)

StatusCodes == {199, 200, 201, 299, 300, 500}

\* Bodies: not JSON; JSON without public_url; JSON with public_url.
Bodies == {"malformed", "{}", "url"}

Responses ==
    {[neterr |-> TRUE, StatusCode |-> 0, body |-> "malformed"]} \cup
    {[neterr |-> FALSE, StatusCode |-> s, body |-> b] : s \in StatusCodes, b \in Bodies}

\* json.NewDecoder(res.Body).Decode(&record): a field absent from the JSON
\* keeps Go's zero value, the empty string.
Decode(body, n) ==
    IF body = "malformed" THEN [err |-> "decode", PublicURL |-> ""]
    ELSE IF body = "{}" THEN [err |-> NoErr, PublicURL |-> ""]
    ELSE [err |-> NoErr, PublicURL |-> URLOf[n]]

NoResponse == [neterr |-> FALSE, StatusCode |-> 0, body |-> "none"]

Non2xx(r) == r.StatusCode < 200 \/ r.StatusCode > 299

\* Mutant: the descriptor is marked created before the body is decoded.
createAttemptMarkFirst(t, n, r) ==
    IF r.neterr THEN [t |-> t, err |-> "transport"]
    ELSE IF Non2xx(r) THEN [t |-> t, err |-> "api"]
    ELSE LET record == Decode(r.body, n) IN
         [t |-> [RemoteAddress |-> record.PublicURL, IsCreated |-> TRUE],
          err |-> record.err]

\* The closure run by one iteration of CreateTunnel's loop.
\* (json.Marshal of a map of strings and bools cannot fail.)
createAttempt(t, n, r) ==
    IF r.neterr THEN [t |-> t, err |-> "transport"]
    ELSE IF Non2xx(r) THEN [t |-> t, err |-> "api"]
    ELSE LET record == Decode(r.body, n) IN
         IF record.err # NoErr THEN [t |-> t, err |-> record.err]
         ELSE [t |-> [RemoteAddress |-> record.PublicURL, IsCreated |-> TRUE],
               err |-> NoErr]

\* The closure run by one iteration of CloseTunnel's loop.
\* (Names are URL-safe, so http.NewRequest succeeds.)
closeAttempt(t, n, r) ==
    IF r.neterr THEN [t |-> t, err |-> "transport"]
    ELSE IF Non2xx(r) THEN [t |-> t, err |-> "api"]
    ELSE [t |-> [RemoteAddress |-> "", IsCreated |-> FALSE], err |-> NoErr]

\* Off by one: 100 attempts instead of 101.
loopCondExclusive(a) == a < maxRetries

\* The loop condition `attempt <= maxRetries`.
loopCond(a) == a <= maxRetries

----------------------------------------------------------------------------
(* SpecScan: StartServer's read loop. Text is a sequence of one-character  *)
(* strings; the regular expressions are matched as Go's regexp matches     *)
(* them (unanchored, leftmost, greedy, `.` not matching a newline).        *)

\* `chunk := make([]byte, 256)`
ChunkSize == 256

\* Bound on the number of lines the agent writes.
MaxLines == 2

Digit == {"0", "1", "2", "3", "4", "5", "6", "7", "8", "9"}

\* The literal parts of ngReady, ngInUse and ngSessionLimited.
LitStarting ==
    <<"s", "t", "a", "r", "t", "i", "n", "g", " ", "w", "e", "b", " ", "s",
    "e", "r", "v", "i", "c", "e">>

LitAddr ==
    <<"a", "d", "d", "r", "=">>

LitInUse ==
    <<"a", "d", "d", "r", "e", "s", "s", " ", "a", "l", "r", "e", "a", "d",
    "y", " ", "i", "n", " ", "u", "s", "e">>

LitLimited ==
    <<"i", "s", " ", "l", "i", "m", "i", "t", "e", "d", " ", "t", "o", " ">>

LitSessions ==
    <<" ", "s", "i", "m", "u", "l", "t", "a", "n", "e", "o", "u", "s", " ",
    "n", "g", "r", "o", "k", " ", "c", "l", "i", "e", "n", "t", " ", "s",
    "e", "s", "s", "i", "o", "n">>

\* Lines of the agent's log.
ReadyLine ==
    <<"s", "t", "a", "r", "t", "i", "n", "g", " ", "w", "e", "b", " ", "s",
    "e", "r", "v", "i", "c", "e", " ", "t", "=", "1", " ", "a", "d", "d",
    "r", "=", "1", "2", "7", ".", "0", ".", "0", ".", "1", ":", "4", "0",
    "4", "0", "\n">>

InUseLine ==
    <<"a", "d", "d", "r", "e", "s", "s", " ", "a", "l", "r", "e", "a", "d",
    "y", " ", "i", "n", " ", "u", "s", "e", "\n">>

LimitLine ==
    <<"i", "s", " ", "l", "i", "m", "i", "t", "e", "d", " ", "t", "o", " ",
    "1", " ", "s", "i", "m", "u", "l", "t", "a", "n", "e", "o", "u", "s",
    " ", "n", "g", "r", "o", "k", " ", "c", "l", "i", "e", "n", "t", " ",
    "s", "e", "s", "s", "i", "o", "n", "\n">>

Addr4040 ==
    <<"1", "2", "7", ".", "0", ".", "0", ".", "1", ":", "4", "0", "4", "0">>

Lines == [ready |-> ReadyLine, inUse |-> InUseLine, limited |-> LimitLine]

\* What the agent may write: up to k lines, by name.
RECURSIVE Outputs(_)
Outputs(k) ==
    IF k = 0 THEN {<<>>}
    ELSE Outputs(k - 1) \cup
         {Append(o, l) : o \in Outputs(k - 1), l \in DOMAIN Lines}

\* The bytes of the lines o, in order.
RECURSIVE text(_)
text(o) == IF o = <<>> THEN <<>> ELSE Lines[Head(o)] \o text(Tail(o))

\* s has the literal lit at position i.
hasLit(s, i, lit) ==
    /\ i >= 1
    /\ i + Len(lit) - 1 <= Len(s)
    /\ s[i] = lit[1]
    /\ \A k \in 2..Len(lit) : s[i + k - 1] = lit[k]

\* `\d+` at k is greedy: the first position after the digits that start at k.
RECURSIVE digitsEnd(_, _)
digitsEnd(s, k) ==
    IF k <= Len(s) /\ s[k] \in Digit THEN digitsEnd(s, k + 1) ELSE k

\* `\d+` followed by the character sep, at k: the position after sep, or 0.
digitsThen(s, k, sep) ==
    IF k = 0 THEN 0
    ELSE LET e == digitsEnd(s, k) IN
         IF e = k \/ e > Len(s) THEN 0
         ELSE IF s[e] # sep THEN 0 ELSE e + 1

\* webURI = `\d+\.\d+\.\d+\.\d+:\d+` at k: the position after the match, or 0.
webURIEnd(s, k) ==
    LET p == digitsThen(s, digitsThen(s, digitsThen(s, digitsThen(s, k, "."), "."), "."), ":")
    IN  IF p = 0 THEN 0
        ELSE LET e == digitsEnd(s, p) IN IF e = p THEN 0 ELSE e

\* checkNGReady.Match: `starting web service.*addr=(\d+\.\d+\.\d+\.\d+:\d+)`.
ngReadyMatch(s) ==
    \E i \in 1..Len(s) :
        /\ hasLit(s, i, LitStarting)
        /\ \E j \in (i + Len(LitStarting))..Len(s) :
              /\ hasLit(s, j, LitAddr)
              /\ webURIEnd(s, j + Len(LitAddr)) # 0
              /\ \A k \in (i + Len(LitStarting))..(j - 1) : s[k] # "\n"

\* checkNGInUse.Match: `address already in use`.
ngInUseMatch(s) == \E i \in 1..Len(s) : hasLit(s, i, LitInUse)

\* checkSessionLimit.Match: `is limited to (\d+) simultaneous ngrok client session`.
ngSessionLimitedMatch(s) ==
    \E i \in 1..Len(s) :
        /\ hasLit(s, i, LitLimited)
        /\ LET e == digitsEnd(s, i + Len(LitLimited)) IN
              e > i + Len(LitLimited) /\ hasLit(s, e, LitSessions)

\* checkWebURI.FindStringSubmatch(chunk): the leftmost match of webURI in the
\* whole chunk, host[0]; the empty sequence stands for no match (nil).
findWebURI(s) ==
    LET starts == {k \in 1..Len(s) : webURIEnd(s, k) # 0} IN
    IF starts = {} THEN <<>>
    ELSE LET k == CHOOSE m \in starts : \A o \in starts : m <= o
         IN  SubSeq(s, k, webURIEnd(s, k) - 1)

Min(x, y) == IF x <= y THEN x ELSE y

\* Reads are counted up to this number.
ReadsCap == 3

NoMatch == [ready |-> FALSE, inUse |-> FALSE, limited |-> FALSE]

NoEffect == [wrote |-> FALSE, sent |-> FALSE]

\* The scanner is not running (Spec, SpecRetry).
InitIdleScan ==
    /\ output = <<>> /\ pos = 0 /\ spc = "idle"
    /\ matched = NoMatch /\ reads = 0 /\ WebUIAddress = <<>> /\ caller = "idle"
    /\ notified = 0 /\ fatal = "none"
    /\ iter = NoEffect

\* `go client.StartServer(done); <-done` with done an unbuffered channel:
\* the agent has been started and the caller waits for readiness.
InitScan ==
    /\ output \in Outputs(MaxLines)
    /\ pos = 0 /\ spc = "read"
    /\ matched = NoMatch /\ reads = 0 /\ WebUIAddress = <<>> /\ caller = "waiting"
    /\ notified = 0 /\ fatal = "none"
    /\ iter = NoEffect

\* The part of the agent's output that has not been read yet.
stream == SubSeq(text(output), pos + 1, Len(text(output)))

\* The three pattern tests of one iteration on chunk c; the ready test also
\* needs `len(host) >= 1`.
matchChunk(c) ==
    [ready |-> ngReadyMatch(c) /\ Len(findWebURI(c)) >= 1,
     inUse |-> ngInUseMatch(c),
     limited |-> ngSessionLimitedMatch(c)]

\* The two fatal tests at the end of an iteration, in the code's order.
fatalTests(m) ==
    IF m.inUse
    THEN spc' = "exited" /\ fatal' = "Address already in use"
    ELSE IF m.limited
    THEN spc' = "exited" /\ fatal' = "Limit session reached for this account"
    ELSE spc' = "read" /\ fatal' = fatal

\* Mutant: `isReady <- true` comes first, the assignment to c.WebUIAddress
\* after it, so the iteration reaches the send with nothing written.
handleChunkSendFirst(c, m) ==
    /\ matched' = m
    /\ iter' = [wrote |-> FALSE, sent |-> FALSE]
    /\ UNCHANGED WebUIAddress
    /\ IF m.ready
       THEN /\ spc' = "send"
            /\ UNCHANGED <<fatal, caller>>
       ELSE /\ fatalTests(m)
            /\ caller' = IF spc' = "exited" THEN "exited" ELSE caller

\* The iteration on chunk c up to its first blocking point, m being the
\* results of the pattern tests: the ready test writes c.WebUIAddress and
\* goes on to `isReady <- true`; otherwise the fatal tests follow at once.
\* log.Fatalln ends the whole process, the caller with it.
handleChunk(c, m) ==
    /\ matched' = m
    /\ iter' = [wrote |-> m.ready, sent |-> FALSE]
    /\ IF m.ready
       THEN /\ WebUIAddress' = findWebURI(c)
            /\ spc' = "send"
            /\ UNCHANGED <<fatal, caller>>
       ELSE /\ fatalTests(m)
            /\ caller' = IF spc' = "exited" THEN "exited" ELSE caller
            /\ UNCHANGED WebUIAddress

\* stdout.Read returns n >= 1 bytes, at most len(chunk) and at most what the
\* agent has written; the iteration runs on chunk[:n].
readChunk(all, n) ==
    /\ n <= Len(all) - pos
    /\ pos' = pos + n
    /\ reads' = Min(reads + 1, ReadsCap)
    /\ LET c == SubSeq(all, pos + 1, pos + n) IN handleChunk(c, matchChunk(c))

ScanRead(n) ==
    /\ spc = "read"
    /\ n \in 1..ChunkSize
    /\ readChunk(text(output), n)
    /\ UNCHANGED <<output, notified, tunnels, retryVars, bulkVars>>

\* `isReady <- true` completes when the caller is receiving; the iteration
\* then runs its fatal tests on the same chunk.
ScanSend ==
    /\ spc = "send"
    /\ caller = "waiting"
    /\ notified' = notified + 1
    /\ iter' = [iter EXCEPT !.sent = TRUE]
    /\ fatalTests(matched)
    /\ caller' = IF spc' = "exited" THEN "exited" ELSE "ready"
    /\ UNCHANGED <<output, pos, matched, reads, WebUIAddress,
                   tunnels, retryVars, bulkVars>>

\* Mutant: a read error is skipped like an empty read (`continue`).
readErrorContinue == UNCHANGED <<spc, fatal, caller>>

\* `if err != nil { log.Fatalln(err) ... }`: the error is logged and the
\* process exits; io.EOF when the agent's stdout has ended and everything
\* written was read, another error of the pipe before that.
readErrorFatal ==
    /\ spc' = "exited"
    /\ fatal' = IF Len(stream) = 0 THEN "EOF" ELSE "read error"
    /\ caller' = "exited"

\* stdout.Read returns an error.
ScanReadError ==
    /\ spc = "read"
    /\ readErrorFatal
    /\ UNCHANGED <<output, pos, matched, reads, WebUIAddress, notified,
                   iter, tunnels, retryVars, bulkVars>>

NextScan ==
    \/ \E n \in 1..ChunkSize : ScanRead(n)
    \/ ScanSend
    \/ ScanReadError

----------------------------------------------------------------------------
(* SpecRetry: CreateTunnel / CloseTunnel called directly, step by step.    *)

InitTunnels == tunnels = [n \in Names |-> NewTunnel]

InitRetry ==
    /\ cop = "none" /\ cpc = "idle" /\ ct = NoTunnel
    /\ attempt = 0 /\ err = NoErr /\ http = 0 /\ nOk = 0
    /\ before = NewTunnel
    /\ resp = NoResponse

\* Entry of CreateTunnel(t): attempt := 0.
CreateTunnelCall(n) ==
    /\ cpc \in {"idle", "returned"}
    /\ cop' = "create" /\ cpc' = "loop" /\ ct' = n
    /\ attempt' = 0 /\ err' = NoErr /\ http' = 0 /\ nOk' = 0
    /\ before' = tunnels[n]
    /\ resp' = NoResponse
    /\ UNCHANGED <<tunnels, bulkVars, scanVars>>

\* Entry of CloseTunnel(t): attempt := 0.
CloseTunnelCall(n) ==
    /\ cpc \in {"idle", "returned"}
    /\ cop' = "close" /\ cpc' = "loop" /\ ct' = n
    /\ attempt' = 0 /\ err' = NoErr /\ http' = 0 /\ nOk' = 0
    /\ before' = tunnels[n]
    /\ resp' = NoResponse
    /\ UNCHANGED <<tunnels, bulkVars, scanVars>>

\* The iteration without `if err == nil { break }`: it retries after a success.
loopStepNoBreak(a, r) ==
    /\ resp' = r
    /\ tunnels' = [tunnels EXCEPT ![ct] = a.t]
    /\ before' = tunnels[ct]
    /\ err' = a.err
    /\ http' = http + 1
    /\ nOk' = IF a.err = NoErr THEN nOk + 1 ELSE nOk
    /\ attempt' = attempt + 1
    /\ cpc' = IF loopCond(attempt + 1) THEN "loop" ELSE "returned"
    /\ UNCHANGED <<cop, ct, bulkVars, scanVars>>

\* One iteration of a retry loop: the closure, `if err == nil { break }`,
\* attempt++ and the loop condition; leaving the loop returns err.
loopStep(a, r) ==
    /\ resp' = r
    /\ tunnels' = [tunnels EXCEPT ![ct] = a.t]
    /\ before' = tunnels[ct]
    /\ err' = a.err
    /\ http' = http + 1
    /\ nOk' = IF a.err = NoErr THEN nOk + 1 ELSE nOk
    /\ IF a.err = NoErr
       THEN cpc' = "returned" /\ attempt' = attempt
       ELSE /\ attempt' = attempt + 1
            /\ cpc' = IF loopCond(attempt + 1) THEN "loop" ELSE "returned"
    /\ UNCHANGED <<cop, ct, bulkVars, scanVars>>

CreateTunnelAttempt ==
    /\ cop = "create" /\ cpc = "loop" /\ loopCond(attempt)
    /\ \E r \in Responses : loopStep(createAttempt(tunnels[ct], ct, r), r)

CloseTunnelAttempt ==
    /\ cop = "close" /\ cpc = "loop" /\ loopCond(attempt)
    /\ \E r \in Responses : loopStep(closeAttempt(tunnels[ct], ct, r), r)

NextRetry ==
    \/ \E n \in Names : CreateTunnelCall(n)
    \/ \E n \in Names : CloseTunnelCall(n)
    \/ CreateTunnelAttempt
    \/ CloseTunnelAttempt

----------------------------------------------------------------------------
(* Spec: the registry, ConnectAll / DisconnectAll and their goroutines.    *)
(* A goroutine's CreateTunnel / CloseTunnel call is one step: its failed   *)
(* attempts touch nothing another thread can see. The control API answers  *)
(* a call by a script: `fails` times `how`, then `next` for good.          *)

FailCounts == {0, 3, maxRetries + 1}

Scripts ==
    {[fails |-> k, how |-> h, next |-> f] :
        k \in FailCounts,
        h \in {[neterr |-> TRUE, StatusCode |-> 0, body |-> "malformed"],
               [neterr |-> FALSE, StatusCode |-> 500, body |-> "malformed"]},
        f \in {[neterr |-> FALSE, StatusCode |-> 201, body |-> "url"],
               [neterr |-> FALSE, StatusCode |-> 200, body |-> "{}"]}}

scriptResp(s, a) == IF a < s.fails THEN s.how ELSE s.next

\* Every response of the script is a 2xx carrying a public URL.
cleanScript(s) == s.fails = 0 /\ s.next.body = "url"

\* One pass of the `for` statement at loop variable a, from loop state st:
\* the loop condition, the closure, and `if err == nil { break }`.
iteration(op, n, s, st, a) ==
    IF st.done \/ ~loopCond(a) THEN [st EXCEPT !.done = TRUE]
    ELSE LET r == scriptResp(s, a)
             res == IF op = "create" THEN createAttempt(st.t, n, r)
                                     ELSE closeAttempt(st.t, n, r)
         IN  [t |-> res.t, err |-> res.err, http |-> st.http + 1,
              done |-> res.err = NoErr]

\* The passes for loop variable lo .. hi-1, in order (split in halves to keep
\* the evaluation shallow).
RECURSIVE iterations(_, _, _, _, _, _)
iterations(op, n, s, st, lo, hi) ==
    IF hi <= lo THEN st
    ELSE IF hi = lo + 1 THEN iteration(op, n, s, st, lo)
    ELSE LET mid == (lo + hi) \div 2
             half == iterations(op, n, s, st, lo, mid)
         IN  IF half.done THEN half ELSE iterations(op, n, s, half, mid, hi)

\* CreateTunnel / CloseTunnel run to their return against script s: the loop
\* variable runs from 0 until the loop condition fails or the loop breaks.
retryLoop(op, t, n, s) ==
    iterations(op, n, s, [t |-> t, err |-> NoErr, http |-> 0, done |-> FALSE],
               0, maxRetries + 2)

\* The values the fields of a descriptor take.
Descriptors ==
    {NewTunnel, [IsCreated |-> TRUE, RemoteAddress |-> ""]} \cup
    {[IsCreated |-> TRUE, RemoteAddress |-> URLOf[n]] : n \in Names}

\* retryLoop, tabulated (the table is computed once).
retryOutcome ==
    [op \in {"create", "close"}, n \in Names, t \in Descriptors, s \in Scripts |->
        retryLoop(op, t, n, s)]

Slots == 1..MaxTunnels

NoGoroutine == [st |-> "none", x |-> NoTunnel]

ErrConnect == "need at least 1 tunnel to connect"
ErrDisconnect == "need at least 1 tunnel to disconnect"

Zero == [n \in Names |-> 0]

InitBulk ==
    /\ Tunnel = <<>>
    /\ bop = "none" /\ bpc = "idle" /\ idx = 0 /\ loopT = NoTunnel
    /\ wg = 0 /\ gor = [g \in Slots |-> NoGoroutine]
    /\ ret = "none" /\ posts = Zero /\ deletes = Zero
    /\ entry = [n \in Names |-> NewTunnel] /\ clean = TRUE

\* Mutant: a descriptor that is already registered is refused.
AddTunnelUnique(n) ==
    /\ bpc \in {"idle", "returned"}
    /\ Len(Tunnel) < MaxTunnels
    /\ \A i \in 1..Len(Tunnel) : Tunnel[i] # n
    /\ Tunnel' = Append(Tunnel, n)
    /\ bpc' = "idle"
    /\ UNCHANGED <<tunnels, bop, idx, loopT, wg, gor, ret, posts, deletes, entry, clean,
                   retryVars, scanVars>>

\* AddTunnel: c.Tunnel = append(c.Tunnel, t).
AddTunnel(n) ==
    /\ bpc \in {"idle", "returned"}
    /\ Len(Tunnel) < MaxTunnels
    /\ Tunnel' = Append(Tunnel, n)
    /\ bpc' = "idle"
    /\ UNCHANGED <<tunnels, bop, idx, loopT, wg, gor, ret, posts, deletes, entry, clean,
                   retryVars, scanVars>>

\* `len(c.Tunnel) < 1`: the bulk functions refuse an empty registry.
\* Mutants: the test never fires; the test also fires on one tunnel.
emptyNever(reg) == Len(reg) < 0

emptyOrOne(reg) == Len(reg) < 2

emptyRegistry(reg) == Len(reg) < 1

\* Entry of ConnectAll / DisconnectAll up to the range loop.
bulkCall(op, errmsg) ==
    /\ bpc \in {"idle", "returned"}
    /\ bop' = op
    /\ wg' = 0 /\ gor' = [g \in Slots |-> NoGoroutine]
    /\ posts' = Zero /\ deletes' = Zero /\ entry' = tunnels /\ clean' = TRUE
    /\ loopT' = NoTunnel
    /\ IF emptyRegistry(Tunnel)
       THEN bpc' = "returned" /\ ret' = errmsg /\ idx' = 0
       ELSE /\ bpc' = IF 1 <= Len(Tunnel) THEN "loop" ELSE "wait"
            /\ ret' = "none" /\ idx' = 1
    /\ UNCHANGED <<tunnels, Tunnel,
                   retryVars, scanVars>>

ConnectAllCall == bulkCall("connect", ErrConnect)

DisconnectAllCall == bulkCall("disconnect", ErrDisconnect)

\* Mutant: ConnectAll creates every registered descriptor.
createAlways(d) == TRUE

\* `if !t.IsCreated` in ConnectAll's range loop.
createNeeded(d) == ~d.IsCreated

\* One iteration of ConnectAll's range loop: `go func(x *Tunnel) {...}(t)`
\* evaluates t when the goroutine is spawned.
ConnectAllLoop ==
    /\ bop = "connect" /\ bpc = "loop" /\ idx <= Len(Tunnel)
    /\ LET t == Tunnel[idx] IN
        /\ loopT' = t
        /\ IF createNeeded(tunnels[t])
           THEN /\ wg' = wg + 1
                /\ gor' = [gor EXCEPT ![idx] = [st |-> "spawned", x |-> t]]
           ELSE UNCHANGED <<wg, gor>>
    /\ idx' = idx + 1
    /\ bpc' = IF idx + 1 <= Len(Tunnel) THEN "loop" ELSE "wait"
    /\ UNCHANGED <<tunnels, Tunnel, bop, ret, posts, deletes, entry, clean,
                   retryVars, scanVars>>

\* One iteration of DisconnectAll's range loop: `go func() {...}()` closes
\* over the loop variable t itself and reads it when it runs.
DisconnectAllLoop ==
    /\ bop = "disconnect" /\ bpc = "loop" /\ idx <= Len(Tunnel)
    /\ LET t == Tunnel[idx] IN
        /\ loopT' = t
        /\ IF tunnels[t].IsCreated
           THEN /\ wg' = wg + 1
                /\ gor' = [gor EXCEPT ![idx] = [st |-> "spawned", x |-> NoTunnel]]
           ELSE UNCHANGED <<wg, gor>>
    /\ idx' = idx + 1
    /\ bpc' = IF idx + 1 <= Len(Tunnel) THEN "loop" ELSE "wait"
    /\ UNCHANGED <<tunnels, Tunnel, bop, ret, posts, deletes, entry, clean,
                   retryVars, scanVars>>

\* The goroutine of ConnectAll starts running: its argument x is bound.
ConnectGoStart(g) ==
    /\ bop = "connect" /\ gor[g].st = "spawned"
    /\ gor' = [gor EXCEPT ![g].st = "running"]
    /\ UNCHANGED <<tunnels, Tunnel, bop, bpc, idx, loopT, wg, ret, posts, deletes, entry, clean,
                   retryVars, scanVars>>

\* The goroutine of DisconnectAll starts running: it reads the shared loop
\* variable t to pass it to CloseTunnel.
DisconnectGoStart(g) ==
    /\ bop = "disconnect" /\ gor[g].st = "spawned"
    /\ gor' = [gor EXCEPT ![g] = [st |-> "running", x |-> loopT]]
    /\ UNCHANGED <<tunnels, Tunnel, bop, bpc, idx, loopT, wg, ret, posts, deletes, entry, clean,
                   retryVars, scanVars>>

\* What a CreateTunnel(x) call that ended as res leaves behind.
createdBy(x, res, s) ==
    /\ tunnels' = [tunnels EXCEPT ![x] = res.t]
    /\ posts' = [posts EXCEPT ![x] = @ + res.http]
    /\ clean' = (clean /\ cleanScript(s))

\* What a CloseTunnel(x) call that ended as res leaves behind.
closedBy(x, res, s) ==
    /\ tunnels' = [tunnels EXCEPT ![x] = res.t]
    /\ deletes' = [deletes EXCEPT ![x] = @ + res.http]
    /\ clean' = (clean /\ s.fails = 0)

\* c.CreateTunnel(x) in the goroutine; the returned error is dropped.
ConnectGoRun(g) ==
    /\ bop = "connect" /\ gor[g].st = "running"
    /\ \E s \in Scripts :
        createdBy(gor[g].x, retryOutcome["create", gor[g].x, tunnels[gor[g].x], s], s)
    /\ gor' = [gor EXCEPT ![g].st = "finished"]
    /\ UNCHANGED <<Tunnel, bop, bpc, idx, loopT, wg, ret, deletes, entry,
                   retryVars, scanVars>>

\* c.CloseTunnel(t) in the goroutine; the returned error is dropped.
DisconnectGoRun(g) ==
    /\ bop = "disconnect" /\ gor[g].st = "running"
    /\ \E s \in Scripts :
        closedBy(gor[g].x, retryOutcome["close", gor[g].x, tunnels[gor[g].x], s], s)
    /\ gor' = [gor EXCEPT ![g].st = "finished"]
    /\ UNCHANGED <<Tunnel, bop, bpc, idx, loopT, wg, ret, posts, entry,
                   retryVars, scanVars>>

\* Mutant: the goroutine ends without wg.Done().
GoEndsWithoutDone(g) ==
    /\ gor[g].st = "finished"
    /\ gor' = [gor EXCEPT ![g].st = "done"]
    /\ UNCHANGED <<tunnels, Tunnel, bop, bpc, idx, loopT, wg, ret, posts, deletes, entry, clean,
                   retryVars, scanVars>>

\* wg.Done() at the end of a goroutine.
GoDone(g) ==
    /\ gor[g].st = "finished"
    /\ gor' = [gor EXCEPT ![g].st = "done"]
    /\ wg' = wg - 1
    /\ UNCHANGED <<tunnels, Tunnel, bop, bpc, idx, loopT, ret, posts, deletes, entry, clean,
                   retryVars, scanVars>>

\* Mutant: Wait returns while one goroutine is still counted.
waitDoneEarly(w) == w <= 1

\* wg.Wait() returns when the counter is zero.
waitDone(w) == w = 0

\* wg.Wait(); return nil.
BulkReturn ==
    /\ bpc = "wait" /\ waitDone(wg)
    /\ bpc' = "returned" /\ ret' = "nil"
    /\ UNCHANGED <<tunnels, Tunnel, bop, idx, loopT, wg, gor, posts, deletes, entry, clean,
                   retryVars, scanVars>>

\* c.runningCmd: nil in a new Client; StartServer stores the command there
\* before it starts the agent, and nothing resets it.
runningCmd == IF spc = "idle" THEN "nil" ELSE "cmd"

Signals == {"SIGINT", "SIGTERM"}

\* `return c.runningCmd.Process.Kill()` / `.Signal(signal)`, called by the
\* caller between bulk calls. Reading the field Process through a nil
\* *exec.Cmd is a nil pointer dereference: a run-time panic that nothing
\* recovers, so the process ends and no value is returned. With a command
\* stored, the result of the OS call is returned.
processCall(op) ==
    /\ bpc \in {"idle", "returned"}
    /\ bop' = op
    /\ IF runningCmd = "nil"
       THEN bpc' = "panicked" /\ ret' = "none"
       ELSE bpc' = "returned" /\ ret' \in {"nil", "os error"}
    /\ UNCHANGED <<tunnels, Tunnel, idx, loopT, wg, gor, posts, deletes, entry, clean,
                   retryVars, scanVars>>

Close == processCall("close")

Signal(sig) == sig \in Signals /\ processCall("signal")

Next ==
    \/ \E n \in Names : AddTunnel(n)
    \/ Close
    \/ \E sig \in Signals : Signal(sig)
    \/ ConnectAllCall
    \/ DisconnectAllCall
    \/ ConnectAllLoop
    \/ DisconnectAllLoop
    \/ \E g \in Slots : ConnectGoStart(g)
    \/ \E g \in Slots : DisconnectGoStart(g)
    \/ \E g \in Slots : ConnectGoRun(g)
    \/ \E g \in Slots : DisconnectGoRun(g)
    \/ \E g \in Slots : GoDone(g)
    \/ BulkReturn

\* A Client with an empty registry and freshly allocated Tunnel objects; no
\* call is running and the agent has not been started.
Init == InitTunnels /\ InitRetry /\ InitBulk /\ InitIdleScan

\* The same client once StartServer has started the agent.
InitStarted == InitTunnels /\ InitRetry /\ InitBulk /\ InitScan

Spec == Init /\ [][Next]_vars

SpecRetry == Init /\ [][NextRetry]_vars

SpecScan == InitStarted /\ [][NextScan]_vars

\* The caller drives its tunnels directly (CreateTunnel / CloseTunnel on a
\* Client with an empty registry) or through the registry, one of the two in
\* a run.
DirectUse == bop = "none" /\ Tunnel = <<>> /\ NextRetry

RegistryUse == cop = "none" /\ Next

NextLive == DirectUse \/ RegistryUse

\* The steps the caller does not decide: an HTTP attempt returning, the range
\* loop advancing, a spawned goroutine being run, wg.Wait returning.
Progress ==
    \/ CreateTunnelAttempt
    \/ CloseTunnelAttempt
    \/ ConnectAllLoop
    \/ DisconnectAllLoop
    \/ \E g \in Slots : ConnectGoStart(g)
    \/ \E g \in Slots : DisconnectGoStart(g)
    \/ \E g \in Slots : ConnectGoRun(g)
    \/ \E g \in Slots : DisconnectGoRun(g)
    \/ \E g \in Slots : GoDone(g)
    \/ BulkReturn

\* Every HTTP attempt returns and the Go scheduler runs what can run.
SpecLive == Init /\ [][NextLive]_vars /\ WF_vars(Progress)

\* A Read on the agent's stdout returns once the stream has ended: the
\* scanner goroutine is scheduled and the Read yields io.EOF.
SpecScanLive ==
    InitStarted /\ [][NextScan]_vars /\ WF_vars(ScanReadError /\ Len(stream) = 0)

----------------------------------------------------------------------------
(* Properties of the retry loops (SpecRetry).                              *)

\* The error an attempt that received response r returns, by the code's cases.
errOf(op, r) ==
    IF r.neterr THEN "transport"
    ELSE IF r.StatusCode < 200 \/ r.StatusCode > 299 THEN "api"
    ELSE IF op = "create" /\ r.body = "malformed" THEN "decode"
    ELSE NoErr

\* C1: in every reachable state, for every tunnel descriptor, created is true
\* exactly when the remote address is non-empty (whatever the control API
\* answers, a 2xx without a public URL included).
C1_CreatedIffRemote ==
    \A n \in Names : tunnels[n].IsCreated <=> tunnels[n].RemoteAddress # ""

\* C2: a call all of whose attempts failed has sent exactly maxRetries + 1 = 101
\* requests when it returns, never more at any time, and it returns the error
\* of its last attempt.
C2_RetryBound ==
    /\ http <= maxRetries + 1
    /\ (cpc = "returned" /\ nOk = 0) =>
          /\ http = maxRetries + 1
          /\ err # NoErr
          /\ err = errOf(cop, resp)

C2_Witness ==
    /\ cop = "close" /\ cpc = "returned" /\ nOk = 0
    /\ http = 101 /\ err = "api" /\ resp.StatusCode = 500

\* C3: once an attempt has succeeded the call has returned nil and sends no
\* further request: a call whose first k-1 attempts failed and whose k-th
\* succeeded has sent exactly k requests (http = failures + 1), k <= 101.
C3_StopAtFirstSuccess ==
    nOk >= 1 =>
        /\ nOk = 1
        /\ cpc = "returned"
        /\ err = NoErr
        /\ http = attempt + 1
        /\ http <= maxRetries + 1
        /\ errOf(cop, resp) = NoErr

\* Three failures, then 201 on the fourth attempt of a create.
C3_Witness ==
    /\ cop = "create" /\ cpc = "returned" /\ err = NoErr
    /\ attempt = 3 /\ http = 4 /\ nOk = 1 /\ resp.StatusCode = 201

\* A success on the very last attempt of the budget (k = 101).
C3_WitnessLast ==
    cpc = "returned" /\ err = NoErr /\ http = maxRetries + 1 /\ nOk = 1

\* C18: after an attempt that failed (transport failure, non-2xx status, or
\* for a create a 2xx whose body is not JSON) the attempt's error is set, the
\* descriptor has the fields it had before the attempt, and the loop goes on
\* to the next attempt unless that was attempt number maxRetries.
C18_FailedAttemptNoEffect ==
    (http >= 1 /\ errOf(cop, resp) # NoErr) =>
        /\ err = errOf(cop, resp)
        /\ tunnels[ct] = before
        /\ IF attempt <= maxRetries THEN cpc = "loop" ELSE cpc = "returned"

\* A create whose second attempt received a 2xx with a malformed body.
C18_Witness ==
    /\ cop = "create" /\ cpc = "loop" /\ attempt = 2 /\ http = 2
    /\ resp = [neterr |-> FALSE, StatusCode |-> 200, body |-> "malformed"]
    /\ err = "decode" /\ tunnels[ct] = before

----------------------------------------------------------------------------
(* Properties of the bulk functions (Spec).                                *)

Registered == {Tunnel[i] : i \in 1..Len(Tunnel)}

Distinct == \A i, j \in 1..Len(Tunnel) : i # j => Tunnel[i] # Tunnel[j]

\* C4: on a registry of n >= 1 distinct descriptors and a control API whose
\* every answer is a success, a ConnectAll entered with none created sends one
\* POST per descriptor and returns with all of them created and their remote
\* addresses non-empty; a DisconnectAll entered with all created sends one
\* DELETE per descriptor, for its own name, and returns with none created.
C4_BulkRoundTrip ==
    (bpc = "returned" /\ ret = "nil" /\ Distinct /\ clean) =>
        /\ (bop = "connect" /\ \A n \in Registered : ~entry[n].IsCreated) =>
              \A n \in Registered :
                  /\ tunnels[n].IsCreated
                  /\ tunnels[n].RemoteAddress # ""
                  /\ posts[n] = 1
        /\ (bop = "disconnect" /\ \A n \in Registered :
                entry[n].IsCreated /\ entry[n].RemoteAddress # "") =>
              \A n \in Registered :
                  /\ ~tunnels[n].IsCreated
                  /\ deletes[n] = 1

\* C5: a bulk function called on an empty registry returns its "need at least
\* 1 tunnel" error, has spawned no goroutine, sent no request and changed no
\* descriptor.
C5_EmptyRegistry ==
    (bpc = "returned" /\ Len(Tunnel) = 0) =>
        /\ ret = (IF bop = "connect" THEN ErrConnect ELSE ErrDisconnect)
        /\ \A g \in Slots : gor[g] = NoGoroutine
        /\ wg = 0
        /\ posts = Zero /\ deletes = Zero
        /\ tunnels = entry

C5_Witness ==
    /\ bpc = "returned" /\ bop = "disconnect" /\ Tunnel = <<>>
    /\ ret = ErrDisconnect

\* C6: on a non-empty registry a bulk function that has returned has returned
\* nil, whatever became of the calls it spawned.
C6_AlwaysNil ==
    (bpc = "returned" /\ Len(Tunnel) >= 1) => ret = "nil"

\* ConnectAll returned nil although both creates used up their 101 attempts.
C6_Witness ==
    /\ bpc = "returned" /\ bop = "connect" /\ ret = "nil"
    /\ Tunnel = <<"a", "b">>
    /\ posts["a"] = 101 /\ posts["b"] = 101
    /\ ~tunnels["a"].IsCreated /\ ~tunnels["b"].IsCreated

\* C7: when the caller is not inside a bulk function, no goroutine of a bulk
\* function is waiting to run, running, or about to call wg.Done.
C7_JoinBarrier ==
    bpc \in {"idle", "returned"} =>
        \A g \in Slots : gor[g].st \in {"none", "done"}

C7_Witness ==
    /\ bpc = "returned" /\ bop = "disconnect" /\ ret = "nil"
    /\ gor[1].st = "done" /\ gor[2].st = "done"

----------------------------------------------------------------------------
(* Properties of the readiness scanner (SpecScan).                         *)

\* C8: the scanner delivers at most one readiness notification, and once it
\* has delivered one it is never again at `isReady <- true`: a later chunk
\* that matches the ready pattern does not make it send (and block).
C8_ReadyOnce ==
    /\ notified <= 1
    /\ notified >= 1 => spc # "send"

\* C9: when the agent's output is the ready line for 127.0.0.1:4040 and it
\* was delivered in one chunk or in two, however split, then after the last
\* byte was handled readiness was notified exactly once and the control
\* address is 127.0.0.1:4040.
C9_BoundarySplit ==
    (output = <<"ready">> /\ Len(stream) = 0 /\ reads <= 2 /\ spc # "send") =>
        /\ notified = 1
        /\ WebUIAddress = Addr4040

\* C10: an iteration whose chunk holds both a ready marker and an in-use
\* marker ends fatally with "Address already in use", having delivered no
\* readiness notification and written no control address.
C10_FatalPrecedence ==
    (matched.ready /\ matched.inUse /\ spc # "send") =>
        /\ spc = "exited"
        /\ fatal = "Address already in use"
        /\ ~iter.sent
        /\ ~iter.wrote

\* C11: a read error on the agent's output ends the process with the error
\* logged, the caller with it; and when the stream has ended with no
\* readiness delivered and the scanner is at its Read, the scanner does not
\* stay there: it exits with the end-of-stream error.
C11_EndOfStreamFatal ==
    /\ [](fatal \in {"EOF", "read error"} => spc = "exited" /\ caller = "exited")
    /\ (spc = "read" /\ Len(stream) = 0 /\ notified = 0)
          ~> (spc = "exited" /\ fatal = "EOF" /\ caller = "exited")

\* The ready line was read in pieces none of which matched; then end of stream.
C11_Witness ==
    /\ output = <<"ready">> /\ pos = Len(ReadyLine)
    /\ notified = 0 /\ WebUIAddress = <<>>
    /\ spc = "exited" /\ fatal = "EOF" /\ caller = "exited"

\* C19: whenever the caller has received a readiness notification the
\* control address is not empty; and the step that delivers a notification
\* is taken by an iteration that has already written WebUIAddress, whose
\* value is the address found in a chunk that matched the ready pattern and
\* ended where the scanner stands.
C19_PublishBeforeNotify ==
    /\ []((notified >= 1 \/ caller = "ready") => WebUIAddress # <<>>)
    /\ [][notified' # notified =>
            /\ iter.wrote /\ matched.ready
            /\ WebUIAddress # <<>>
            /\ WebUIAddress' = WebUIAddress
            /\ \E n \in 1..pos :
                  LET c == SubSeq(text(output), pos - n + 1, pos) IN
                  ngReadyMatch(c) /\ WebUIAddress = findWebURI(c)]_vars

\* The caller was notified and finds the address of the ready line.
C19_Witness ==
    /\ notified = 1 /\ caller = "ready" /\ iter.sent
    /\ WebUIAddress = Addr4040

\* C17: the control address is written once and never again: no step
\* changes a non-empty WebUIAddress, and an iteration of the scanner writes
\* WebUIAddress only while it is still empty and the caller has not been
\* notified (so not while the caller's CreateTunnel / CloseTunnel calls may
\* be reading it).
C17_AddressWrittenOnce ==
    [][/\ WebUIAddress # <<>> => WebUIAddress' = WebUIAddress
       /\ (pos' # pos /\ iter'.wrote) => (WebUIAddress = <<>> /\ notified = 0)]_vars

----------------------------------------------------------------------------
(* Properties of the registry and of the goroutines' descriptors (Spec).   *)

\* C13: a step that changes the registry appends exactly one descriptor to
\* its end, keeps the entries it had in their order, changes no field of any
\* descriptor and sends no request; and AddTunnel takes any descriptor,
\* registered already or not, whenever the caller is between bulk calls.
C13_AddTunnelAppends ==
    /\ [](\A n \in Names :
            (bpc \in {"idle", "returned"} /\ Len(Tunnel) < MaxTunnels)
                => ENABLED AddTunnel(n))
    /\ [][Tunnel' # Tunnel =>
            /\ Len(Tunnel') = Len(Tunnel) + 1
            /\ SubSeq(Tunnel', 1, Len(Tunnel)) = Tunnel
            /\ Tunnel'[Len(Tunnel')] \in Names
            /\ tunnels' = tunnels
            /\ posts' = posts /\ deletes' = deletes /\ http' = http]_vars

\* The same descriptor registered twice.
C13_Witness == Tunnel = <<"b", "b">>

\* C14: during and after a DisconnectAll on a registry of distinct
\* descriptors, a descriptor that was not created when the call began has
\* received no DELETE and has the fields it had then.
C14_DestroyOnlyCreated ==
    (bop = "disconnect" /\ Distinct) =>
        \A n \in Registered :
            ~entry[n].IsCreated => deletes[n] = 0 /\ tunnels[n] = entry[n]

\* C15: during a ConnectAll or DisconnectAll on a registry of distinct
\* descriptors, no two goroutines are inside CreateTunnel / CloseTunnel on
\* the same descriptor at the same time.
C15_OneHolder ==
    (bop \in {"connect", "disconnect"} /\ Distinct) =>
        \A g, h \in Slots :
            (g # h /\ gor[g].st = "running" /\ gor[h].st = "running")
                => gor[g].x # gor[h].x

\* C16: during and after a ConnectAll, a descriptor that was created when
\* the call began has received no POST and has the fields it had then; when
\* every registered descriptor was created at that time, the call spawns no
\* goroutine and sends no request at all.
C16_CreateOnlyNotCreated ==
    bop = "connect" =>
        /\ \A n \in Names :
              entry[n].IsCreated => posts[n] = 0 /\ tunnels[n] = entry[n]
        /\ (\A n \in Registered : entry[n].IsCreated) =>
              /\ posts = Zero
              /\ \A g \in Slots : gor[g] = NoGoroutine

\* A second ConnectAll after a fully successful one has returned.
C16_Witness ==
    /\ bop = "connect" /\ bpc = "returned" /\ ret = "nil"
    /\ Tunnel = <<"a", "b">>
    /\ \A n \in Names : entry[n] = [IsCreated |-> TRUE, RemoteAddress |-> URLOf[n]]
    /\ tunnels = entry /\ posts = Zero

----------------------------------------------------------------------------
(* Properties of Close and Signal (Spec).                                  *)

\* C12: Close or Signal called on a Client whose StartServer was never called
\* (no command stored) returns an error value: the call returns, what it
\* returns is neither nothing nor nil, and the process has not crashed.
C12_NoProcessReturnsError ==
    (bop \in {"close", "signal"} /\ runningCmd = "nil" /\ bpc # "idle") =>
        /\ bpc = "returned"
        /\ ret \notin {"none", "nil"}

----------------------------------------------------------------------------
(* Termination (SpecLive).                                                 *)

\* C20: a CreateTunnel or CloseTunnel call that is in its loop returns, and a
\* ConnectAll or DisconnectAll call that is in its range loop or at wg.Wait
\* returns, whatever the control API answers.
C20_Termination ==
    /\ (cpc = "loop") ~> (cpc = "returned")
    /\ (bpc \in {"loop", "wait"}) ~> (bpc = "returned")

\* DisconnectAll has returned although every DELETE failed, 101 per call.
C20_Witness ==
    /\ bop = "disconnect" /\ bpc = "returned" /\ ret = "nil"
    /\ Tunnel = <<"a", "b">>
    /\ deletes["a"] + deletes["b"] = 2 * (maxRetries + 1)
    /\ tunnels["a"].IsCreated /\ tunnels["b"].IsCreated

====
